---- MODULE Spec2Model ----
(***************************************************************************)
(* Radial signals-of-change chart: data normaliser (transformData), the    *)
(* three-key ordering (sortScanHits), slot geometry, rotation              *)
(* normalisation and the two-pass label positioning effect of              *)
(* RadialScanChart / PrintRadialChart.                                     *)
(*                                                                         *)
(* JavaScript strings that the code inspects character by character        *)
(* (split, trim, toLowerCase, property lookup) are sequences of one-       *)
(* character strings.  Canonical domain ids are only compared and looked   *)
(* up, so they are plain strings.  JavaScript numbers are exact rationals  *)
(* where the code divides (slot angles) and fixed-point thousandths where  *)
(* it calls Math.sin / Math.cos.                                           *)
(***************************************************************************)
EXTENDS Integers, Sequences, FiniteSets, TLC

VARIABLES
    pc,       \* position of the function under evaluation (pure-function specifications)
    arg,      \* its argument
    res,      \* its result
    component,          \* which chart component is mounted
    scanHits,           \* useState([]): the sorted signal list
    loading,            \* useState(true)
    error,              \* useState(null): whether an error message is set
    hasInitiallyLoaded, \* useState(false)
    labelPositions,     \* useState({}): index -> {x, y}
    textRefs,           \* textRefs.current: the indices whose <text> element is mounted
    timer,              \* the pending measurement timeout and the list its callback closed over
    lastRenderTime,     \* lastRenderTimeRef.current
    renderCount,        \* renderCountRef.current
    now,                \* the reading of performance.now()
    pendingLoads,       \* loadData calls awaiting fetchScanHits
    loadsStarted,       \* loadData calls made so far
    listGen,            \* history: how many times setScanHits has replaced the list
    lastPass            \* history: the last measurement pass (list generation, length, per-index measurement)

pureVars == <<pc, arg, res>>

chartVars ==
    <<component, scanHits, loading, error, hasInitiallyLoaded, labelPositions, textRefs,
      timer, lastRenderTime, renderCount, now, pendingLoads, loadsStarted, listGen, lastPass>>

vars == <<pureVars, chartVars>>

-----------------------------------------------------------------------------
(* Strings *)

\* The value of a field that is absent from a record (JavaScript undefined).
Undefined == <<"#undefined">>

STR_Social ==
    <<"S", "o", "c", "i", "a", "l">>
STR_Technological ==
    <<"T", "e", "c", "h", "n", "o", "l", "o", "g", "i", "c", "a", "l">>
STR_Economic ==
    <<"E", "c", "o", "n", "o", "m", "i", "c">>
STR_Environmental ==
    <<"E", "n", "v", "i", "r", "o", "n", "m", "e", "n", "t", "a", "l">>
STR_PoliticalLegal ==
    <<"P", "o", "l", "i", "t", "i", "c", "a", "l", " ", "&", " ", "L", "e", "g", "a", "l">>
STR_Unknown ==
    <<"U", "n", "k", "n", "o", "w", "n">>
STR_Bogus ==
    <<"H", "e", "a", "l", "t", "h">>

\* The JavaScript booleans, as field values.
JS_TRUE == <<"#true">>

JS_FALSE == <<"#false">>

\* A value is falsy for `x || d` and `!x` when it is undefined, false or the empty string.
Falsy(s) == s = Undefined \/ s = JS_FALSE \/ s = <<>>

\* Array.prototype.indexOf: zero-based index of the first occurrence, -1 when absent.
IndexOf(seq, x) ==
    IF \E i \in 1..Len(seq) : seq[i] = x
    THEN (CHOOSE i \in 1..Len(seq) : seq[i] = x /\ \A j \in 1..(i - 1) : seq[j] # x) - 1
    ELSE -1

Range(seq) == {seq[i] : i \in 1..Len(seq)}

Front(seq) == SubSeq(seq, 1, Len(seq) - 1)

Last(seq) == seq[Len(seq)]

-----------------------------------------------------------------------------
(* Static configuration *)

DOMAIN_ORDER ==
    <<"teaching-learning", "equity-access", "curriculum-reform", "education-society",
      "technology-digital", "investment-governance", "teacher-empowerment">>

STEEP_ORDER ==
    <<STR_Social, STR_Technological, STR_Economic, STR_Environmental, STR_PoliticalLegal>>

-----------------------------------------------------------------------------
(* The chart component before it is mounted (pure-function specifications) *)

NoTimer == [pending |-> FALSE, at |-> 0, hits |-> <<>>, gen |-> 0]

NoPass == [gen |-> 0, length |-> 0, outcome |-> <<>>]

ChartIdle ==
    /\ component = "none"
    /\ scanHits = <<>>
    /\ loading = TRUE
    /\ error = FALSE
    /\ hasInitiallyLoaded = FALSE
    /\ labelPositions = <<>>
    /\ textRefs = {}
    /\ timer = NoTimer
    /\ lastRenderTime = 0
    /\ renderCount = 0
    /\ now = 0
    /\ pendingLoads = 0
    /\ loadsStarted = 0
    /\ listGen = 0
    /\ lastPass = NoPass

-----------------------------------------------------------------------------
(* Deterministic ordering *)

\* Mutant of getInnermostDomain: the reduce keeps the larger index (outermost domain).
getInnermostDomain_Outermost(domains) ==
    IF Len(domains) = 0 THEN "teacher-empowerment"
    ELSE LET RECURSIVE reduce(_, _)
             reduce(innermost, k) ==
                 IF k > Len(domains) THEN innermost
                 ELSE reduce(IF IndexOf(DOMAIN_ORDER, domains[k]) > IndexOf(DOMAIN_ORDER, innermost)
                             THEN domains[k] ELSE innermost, k + 1)
         IN reduce(domains[1], 2)

\* domains.reduce without an initial value: the accumulator starts at domains[0].
getInnermostDomain(domains) ==
    IF Len(domains) = 0 THEN "teacher-empowerment"
    ELSE LET RECURSIVE reduce(_, _)
             reduce(innermost, k) ==
                 IF k > Len(domains) THEN innermost
                 ELSE reduce(IF IndexOf(DOMAIN_ORDER, domains[k]) < IndexOf(DOMAIN_ORDER, innermost)
                             THEN domains[k] ELSE innermost, k + 1)
         IN reduce(domains[1], 2)

\* Mutant of getNextOutermostDomain: the remaining domain of the largest index.
getNextOutermostDomain_Outermost(domains, innermostDomain) ==
    IF Len(domains) <= 1 THEN innermostDomain
    ELSE LET NotInnermost(d) == d # innermostDomain
             remainingDomains == SelectSeq(domains, NotInnermost)
             RECURSIVE reduce(_, _)
             reduce(next, k) ==
                 IF k > Len(remainingDomains) THEN next
                 ELSE reduce(IF IndexOf(DOMAIN_ORDER, remainingDomains[k]) > IndexOf(DOMAIN_ORDER, next)
                             THEN remainingDomains[k] ELSE next, k + 1)
         IN IF Len(remainingDomains) = 0 THEN innermostDomain
            ELSE reduce(remainingDomains[1], 2)

getNextOutermostDomain(domains, innermostDomain) ==
    IF Len(domains) <= 1 THEN innermostDomain
    ELSE LET NotInnermost(d) == d # innermostDomain
             remainingDomains == SelectSeq(domains, NotInnermost)
             RECURSIVE reduce(_, _)
             reduce(next, k) ==
                 IF k > Len(remainingDomains) THEN next
                 ELSE reduce(IF IndexOf(DOMAIN_ORDER, remainingDomains[k]) < IndexOf(DOMAIN_ORDER, next)
                             THEN remainingDomains[k] ELSE next, k + 1)
         IN IF Len(remainingDomains) = 0 THEN innermostDomain
            ELSE reduce(remainingDomains[1], 2)

\* The `a.steepCategory || 'Unknown'` operand and its index in STEEP_ORDER.
steepIndex(hit) ==
    IndexOf(STEEP_ORDER, IF Falsy(hit.steepCategory) THEN STR_Unknown ELSE hit.steepCategory)

domainIndex(hit) == IndexOf(DOMAIN_ORDER, getInnermostDomain(hit.domains))

nextIndex(hit) ==
    IndexOf(DOMAIN_ORDER, getNextOutermostDomain(hit.domains, getInnermostDomain(hit.domains)))

\* The comparator handed to Array.prototype.sort.
compareScanHits(a, b) ==
    IF steepIndex(a) # steepIndex(b) THEN steepIndex(a) - steepIndex(b)
    ELSE IF domainIndex(a) # domainIndex(b) THEN domainIndex(a) - domainIndex(b)
    ELSE nextIndex(a) - nextIndex(b)

\* Mutant of InsertSorted: the new element passes the elements it compares equal to.
RECURSIVE InsertSorted_Unstable(_, _)
InsertSorted_Unstable(sorted, x) ==
    IF sorted = <<>> THEN <<x>>
    ELSE IF compareScanHits(Last(sorted), x) >= 0
         THEN Append(InsertSorted_Unstable(Front(sorted), x), Last(sorted))
         ELSE Append(sorted, x)

\* One insertion of the stable sort ECMAScript requires of Array.prototype.sort:
\* x goes behind every element that does not compare greater than it.
RECURSIVE InsertSorted(_, _)
InsertSorted(sorted, x) ==
    IF sorted = <<>> THEN <<x>>
    ELSE IF compareScanHits(Last(sorted), x) > 0
         THEN Append(InsertSorted(Front(sorted), x), Last(sorted))
         ELSE Append(sorted, x)

\* [...scanHits].sort(comparator)
RECURSIVE sortFrom(_, _, _)
sortFrom(hits, k, sorted) ==
    IF k > Len(hits) THEN sorted
    ELSE sortFrom(hits, k + 1, InsertSorted(sorted, hits[k]))

sortScanHits(hits) == sortFrom(hits, 1, <<>>)

-----------------------------------------------------------------------------
(* Specification of sortScanHits over bounded inputs *)

\* Longest signal list drawn for the ordering.
MaxSortLen == 3

TITLE_A == <<"A">>

SortCategoryPool == {Undefined, STR_Social, STR_PoliticalLegal, STR_Bogus}

SortDomainsPool ==
    { <<>>,
      <<"teacher-empowerment">>,
      <<"teaching-learning">>,
      <<"curriculum-reform", "teaching-learning">>,
      <<"teaching-learning", "investment-governance">> }

\* A transformed signal, as transformData builds it.
ScanHit(id, title, domains, steepCategory, participantIdentified) ==
    [id |-> id, title |-> title, domains |-> domains,
     steepCategory |-> steepCategory, participantIdentified |-> participantIdentified]

SortShapes == SortCategoryPool \X SortDomainsPool

\* Lists of up to MaxSortLen signals; the record ID is the input position.
SortInputs ==
    UNION { { [i \in 1..n |-> ScanHit(i, TITLE_A, f[i][2], f[i][1], JS_FALSE)] :
              f \in [1..n -> SortShapes] } : n \in 0..MaxSortLen }

\* The scenario of seven signals with one distinct domain each and no category,
\* in every input order.
ScenarioInputs ==
    { [i \in 1..Len(DOMAIN_ORDER) |-> ScanHit(i, TITLE_A, <<DOMAIN_ORDER[p[i]]>>, Undefined, JS_FALSE)] :
      p \in Permutations(1..Len(DOMAIN_ORDER)) }

SortInit ==
    /\ ChartIdle
    /\ pc = "sort"
    /\ arg \in SortInputs \cup ScenarioInputs
    /\ res = <<>>

SortApply ==
    /\ pc = "sort"
    /\ res' = sortScanHits(arg)
    /\ pc' = "sorted"
    /\ UNCHANGED <<arg, chartVars>>

SortNext == SortApply

SortSpec == SortInit /\ [][SortNext]_vars

-----------------------------------------------------------------------------
(* Properties of the ordering *)

KnownCategory(hit) == hit.steepCategory \in Range(STEEP_ORDER)

\* C1: in the sorted list every signal whose category is absent or not one of
\* the five STEEP_ORDER values comes after all signals whose category is one
\* of the five (the unknown bucket is a trailing sixth bucket).
C1_UnknownCategoryLast ==
    pc = "sorted" =>
        \A i, j \in 1..Len(res) :
            (i < j /\ KnownCategory(res[j])) => KnownCategory(res[i])

SameSortKey(a, b) ==
    /\ steepIndex(a) = steepIndex(b)
    /\ domainIndex(a) = domainIndex(b)
    /\ nextIndex(a) = nextIndex(b)

PositionIn(list, hit) == CHOOSE k \in 1..Len(list) : list[k] = hit

IsPermutationOf(out, in) ==
    /\ Len(out) = Len(in)
    /\ \A i \in 1..Len(in) : \E k \in 1..Len(out) : out[k] = in[i]

\* C2: sortScanHits is stable: two signals with identical (category index,
\* innermost-domain index, next-outermost-domain index) keys keep their
\* relative input order in the output.
C2_SortIsStable ==
    pc = "sorted" =>
        /\ IsPermutationOf(res, arg)
        /\ \A i, j \in 1..Len(arg) :
               (i < j /\ SameSortKey(arg[i], arg[j]))
                   => PositionIn(res, arg[i]) < PositionIn(res, arg[j])

\* A sorted list that had two equal-key signals of different shape, the later
\* of which sat in front of a signal the sort had to move.
C2_Witness ==
    /\ pc = "sorted"
    /\ res # arg
    /\ \E i, j \in 1..Len(arg) :
           /\ i < j
           /\ SameSortKey(arg[i], arg[j])
           /\ arg[i].domains # arg[j].domains

\* The member of domains with the smallest canonical index, the outermost
\* domain when there is none.
MinDomain(domains) ==
    IF domains = <<>> THEN DOMAIN_ORDER[Len(DOMAIN_ORDER)]
    ELSE CHOOSE d \in Range(domains) :
             \A e \in Range(domains) : IndexOf(DOMAIN_ORDER, d) <= IndexOf(DOMAIN_ORDER, e)

IsScenario(list) ==
    /\ Len(list) = Len(DOMAIN_ORDER)
    /\ \A i \in 1..Len(list) : list[i].steepCategory = Undefined /\ Len(list[i].domains) = 1
    /\ {list[i].domains[1] : i \in 1..Len(list)} = Range(DOMAIN_ORDER)

\* C3: getInnermostDomain returns the member of domains with the smallest
\* canonical index ('teacher-empowerment' for no domains); signals with the
\* same category index come out in ascending canonical index of it; the seven
\* single-domain signals without category come out teaching-learning first,
\* teacher-empowerment last.
C3_InnermostDomainOrder ==
    pc = "sorted" =>
        /\ \A k \in 1..Len(res) : getInnermostDomain(res[k].domains) = MinDomain(res[k].domains)
        /\ \A i, j \in 1..Len(res) :
               (i < j /\ steepIndex(res[i]) = steepIndex(res[j]))
                   => IndexOf(DOMAIN_ORDER, MinDomain(res[i].domains))
                          <= IndexOf(DOMAIN_ORDER, MinDomain(res[j].domains))
        /\ IsScenario(arg) => \A k \in 1..Len(res) : res[k].domains = <<DOMAIN_ORDER[k]>>

\* The seven-signal scenario, given outermost domain first.
C3_Witness ==
    /\ pc = "sorted"
    /\ IsScenario(arg)
    /\ arg[1].domains = <<"teacher-empowerment">>
    /\ arg[Len(arg)].domains = <<"teaching-learning">>
    /\ res[1].domains = <<"teaching-learning">>

-----------------------------------------------------------------------------
(* Data normaliser *)

KEY_TeachingLearning ==
    <<"t", "e", "a", "c", "h", "i", "n", "g", " ", "&", " ", "l", "e", "a", "r", "n", "i", "n", "g", " ", "m", "o", "d", "e", "l", "s">>
KEY_EquityAccess ==
    <<"e", "q", "u", "i", "t", "y", " ", "&", " ", "a", "c", "c", "e", "s", "s">>
KEY_CurriculumReform ==
    <<"c", "u", "r", "r", "i", "c", "u", "l", "u", "m", " ", "r", "e", "f", "o", "r", "m">>
KEY_EducationSociety ==
    <<"e", "d", "u", "c", "a", "t", "i", "o", "n", " ", "&", " ", "s", "o", "c", "i", "e", "t", "y">>
KEY_TechnologyDigital ==
    <<"t", "e", "c", "h", "n", "o", "l", "o", "g", "y", " ", "&", " ", "d", "i", "g", "i", "t", "a", "l", " ", "l", "e", "a", "r", "n", "i", "n", "g">>
KEY_InvestmentGovernance ==
    <<"i", "n", "v", "e", "s", "t", "m", "e", "n", "t", " ", "&", " ", "g", "o", "v", "e", "r", "n", "a", "n", "c", "e">>
KEY_TeacherEmpowerment ==
    <<"t", "e", "a", "c", "h", "e", "r", " ", "e", "m", "p", "o", "w", "e", "r", "m", "e", "n", "t">>
KEY_constructor ==
    <<"c", "o", "n", "s", "t", "r", "u", "c", "t", "o", "r">>
KEY_proto ==
    <<"_", "_", "p", "r", "o", "t", "o", "_", "_">>

\* The own properties of the DOMAIN_NAME_MAPPING object literal.
DOMAIN_NAME_MAPPING ==
    << <<KEY_TeachingLearning, "teaching-learning">>,
       <<KEY_EquityAccess, "equity-access">>,
       <<KEY_CurriculumReform, "curriculum-reform">>,
       <<KEY_EducationSociety, "education-society">>,
       <<KEY_TechnologyDigital, "technology-digital">>,
       <<KEY_InvestmentGovernance, "investment-governance">>,
       <<KEY_TeacherEmpowerment, "teacher-empowerment">> >>

\* What an object literal inherits from Object.prototype under a key that
\* toLowerCase can produce: the Object constructor and the prototype itself.
OBJECT_PROTOTYPE ==
    << <<KEY_constructor, "[Function: Object]">>,
       <<KEY_proto, "[Object: null prototype] {}">> >>

NoValue == "#undefined"

Null == "#null"

UPPER ==
    <<"A", "B", "C", "D", "E", "F", "G", "H", "I", "J", "K", "L", "M",
      "N", "O", "P", "Q", "R", "S", "T", "U", "V", "W", "X", "Y", "Z">>

LOWER ==
    <<"a", "b", "c", "d", "e", "f", "g", "h", "i", "j", "k", "l", "m",
      "n", "o", "p", "q", "r", "s", "t", "u", "v", "w", "x", "y", "z">>

\* String.prototype.toLowerCase
toLowerCase(str) ==
    [i \in 1..Len(str) |->
        IF IndexOf(UPPER, str[i]) >= 0 THEN LOWER[IndexOf(UPPER, str[i]) + 1] ELSE str[i]]

IsWhiteSpace(c) == c \in {" ", "\t", "\n"}

\* String.prototype.trim
RECURSIVE trim(_)
trim(str) ==
    IF str = <<>> THEN <<>>
    ELSE IF IsWhiteSpace(str[1]) THEN trim(Tail(str))
    ELSE IF IsWhiteSpace(Last(str)) THEN trim(Front(str))
    ELSE str

\* String.prototype.split with a one-character separator: scan left to right,
\* cur is the piece being read.
RECURSIVE splitFrom(_, _, _, _)
splitFrom(str, sep, k, cur) ==
    IF k > Len(str) THEN <<cur>>
    ELSE IF str[k] = sep THEN <<cur>> \o splitFrom(str, sep, k + 1, <<>>)
    ELSE splitFrom(str, sep, k + 1, Append(cur, str[k]))

split(str, sep) == splitFrom(str, sep, 1, <<>>)

\* obj[key] on an object literal: own properties first, then the prototype chain.
getProperty(own, key) ==
    IF \E i \in 1..Len(own) : own[i][1] = key
    THEN own[CHOOSE i \in 1..Len(own) : own[i][1] = key][2]
    ELSE IF \E i \in 1..Len(OBJECT_PROTOTYPE) : OBJECT_PROTOTYPE[i][1] = key
    THEN OBJECT_PROTOTYPE[CHOOSE i \in 1..Len(OBJECT_PROTOTYPE) : OBJECT_PROTOTYPE[i][1] = key][2]
    ELSE NoValue

\* The callback of domainNames.map: the mapped id, null for a name that maps to
\* a falsy value.
mapDomainName(name) ==
    LET mappedDomain == getProperty(DOMAIN_NAME_MAPPING, toLowerCase(name))
    IN IF mappedDomain = NoValue THEN Null ELSE mappedDomain

\* record.fields[name]
Field(record, name) == IF name \in DOMAIN record THEN record[name] ELSE Undefined

\* The domains of one record: split, trim, drop empty names, map, drop nulls.
transformDomains(record) ==
    LET domainString == IF Falsy(Field(record, "Domain")) THEN <<>> ELSE Field(record, "Domain")
        pieces == split(domainString, "|")
        trimmed == [i \in 1..Len(pieces) |-> trim(pieces[i])]
        NonEmpty(d) == Len(d) > 0
        domainNames == SelectSeq(trimmed, NonEmpty)
        mapped == [i \in 1..Len(domainNames) |-> mapDomainName(domainNames[i])]
        NotNull(d) == d # Null
    IN SelectSeq(mapped, NotNull)

\* transformData of RadialScanChart
transformData(records) ==
    [k \in 1..Len(records) |->
        ScanHit(Field(records[k], "ID"),
                Field(records[k], "Title"),
                transformDomains(records[k]),
                Field(records[k], "STEEP Category"),
                IF Falsy(Field(records[k], "Participant Identified")) THEN JS_FALSE
                ELSE Field(records[k], "Participant Identified"))]

-----------------------------------------------------------------------------
(* Specification of transformData over bounded Domain strings *)

\* Most pieces a Domain string is put together from.
MaxPieces == 4

TXT_EquityAccess ==
    <<"E", "q", "u", "i", "t", "y", " ", "&", " ", "A", "c", "c", "e", "s", "s">>
TXT_CURRICULUM ==
    <<"C", "U", "R", "R", "I", "C", "U", "L", "U", "M", " ", "R", "E", "F", "O", "R", "M">>
TXT_TeachingLearning ==
    <<"T", "e", "a", "c", "h", "i", "n", "g", " ", "&", " ", "L", "e", "a", "r", "n", "i", "n", "g", " ", "M", "o", "d", "e", "l", "s">>
TXT_FooBar ==
    <<"F", "o", "o", " ", "B", "a", "r">>

DomainPieces ==
    { <<"|">>, <<" ">>, TXT_EquityAccess, TXT_CURRICULUM, TXT_TeachingLearning,
      KEY_TeacherEmpowerment, TXT_FooBar, KEY_constructor }

RECURSIVE Concat(_)
Concat(seqs) == IF seqs = <<>> THEN <<>> ELSE seqs[1] \o Concat(Tail(seqs))

DomainStrings ==
    UNION { { Concat(f) : f \in [1..n -> DomainPieces] } : n \in 0..MaxPieces }

RawRecord(id, title, domain, steep, participant) ==
    ("ID" :> id) @@ ("Title" :> title) @@ ("Domain" :> domain)
        @@ ("STEEP Category" :> steep) @@ ("Participant Identified" :> participant)

\* A record without a Domain field.
RecordWithoutDomain ==
    ("ID" :> <<"1">>) @@ ("Title" :> TITLE_A) @@ ("STEEP Category" :> STR_Social)

TransformInputs ==
    { <<RawRecord(<<"1">>, TITLE_A, d, STR_Social, JS_TRUE)>> : d \in DomainStrings }
        \cup { <<RecordWithoutDomain>> }

TransformInit ==
    /\ ChartIdle
    /\ pc = "transform"
    /\ arg \in TransformInputs
    /\ res = <<>>

TransformApply ==
    /\ pc = "transform"
    /\ res' = transformData(arg)
    /\ pc' = "transformed"
    /\ UNCHANGED <<arg, chartVars>>

TransformNext == TransformApply

TransformSpec == TransformInit /\ [][TransformNext]_vars

\* The names of a Domain string: split on '|', trimmed, empty ones dropped,
\* lower-cased.
DomainTokens(record) ==
    LET str == IF "Domain" \in DOMAIN record THEN record["Domain"] ELSE <<>>
        pieces == split(str, "|")
        NonEmpty(d) == Len(d) > 0
    IN SelectSeq([i \in 1..Len(pieces) |-> toLowerCase(trim(pieces[i]))], NonEmpty)

InNameTable(token) == \E i \in 1..Len(DOMAIN_NAME_MAPPING) : DOMAIN_NAME_MAPPING[i][1] = token

CanonicalId(token) ==
    DOMAIN_NAME_MAPPING[CHOOSE i \in 1..Len(DOMAIN_NAME_MAPPING) : DOMAIN_NAME_MAPPING[i][1] = token][2]

\* The canonical ids of the tokens found in the seven-entry name table, in order.
ExpectedDomains(record) ==
    LET found == SelectSeq(DomainTokens(record), InNameTable)
    IN [i \in 1..Len(found) |-> CanonicalId(found[i])]

\* C10: for every record, domains is the sequence of canonical ids of the
\* tokens of the Domain string that are in the seven-entry name table, in
\* their left-to-right order; an unrecognised token is dropped, every element
\* is one of the seven canonical ids, and a missing Domain field gives <<>>.
C10_DomainsAreMappedTokens ==
    pc = "transformed" =>
        \A k \in 1..Len(res) :
            /\ res[k].domains = ExpectedDomains(arg[k])
            /\ Range(res[k].domains) \subseteq Range(DOMAIN_ORDER)
            /\ "Domain" \notin DOMAIN arg[k] => res[k].domains = <<>>

\* What remains of C10 when no token names an inherited property of the table object.
C10_HoldsForOrdinaryTokens ==
    pc = "transformed" =>
        \A k \in 1..Len(res) :
            (\A t \in Range(DomainTokens(arg[k])) : t \notin {KEY_constructor, KEY_proto})
                => /\ res[k].domains = ExpectedDomains(arg[k])
                   /\ Range(res[k].domains) \subseteq Range(DOMAIN_ORDER)

-----------------------------------------------------------------------------
(* Numbers: exact rationals <<numerator, denominator>>, denominator > 0, in *)
(* lowest terms, for the values the code obtains by division.              *)

Abs(n) == IF n < 0 THEN -n ELSE n

RECURSIVE GCD(_, _)
GCD(a, b) == IF b = 0 THEN a ELSE GCD(b, a % b)

Rat(n, d) ==
    LET g == GCD(Abs(n), Abs(d))
        sign == IF d < 0 THEN -1 ELSE 1
    IN <<(sign * n) \div g, (sign * d) \div g>>

Num(n) == <<n, 1>>

RatAdd(a, b) == Rat(a[1] * b[2] + b[1] * a[2], a[2] * b[2])

RatSub(a, b) == Rat(a[1] * b[2] - b[1] * a[2], a[2] * b[2])

RatMul(a, b) == Rat(a[1] * b[1], a[2] * b[2])

RatDiv(a, b) == Rat(a[1] * b[2], a[2] * b[1])

RatLess(a, b) == a[1] * b[2] < b[1] * a[2]

RatIsInteger(a) == a[2] = 1

-----------------------------------------------------------------------------
(* Angular slots *)

\* const anglePerHit = 360 / scanHits.length
anglePerHit(length) == RatDiv(Num(360), Num(length))

\* Mutant of wedgeStartAngle: the index is taken one-based.
wedgeStartAngle_OneBased(index, length) ==
    RatMul(RatDiv(Num(index + 1), Num(length)), Num(360))

\* Domain segments: const startAngle = (index / scanHits.length) * 360
wedgeStartAngle(index, length) == RatMul(RatDiv(Num(index), Num(length)), Num(360))

\* Domain segments: const endAngle = startAngle + anglePerHit
wedgeEndAngle(index, length) == RatAdd(wedgeStartAngle(index, length), anglePerHit(length))

\* Labels: const segmentStartAngle = (index / scanHits.length) * 360
segmentStartAngle(index, length) == RatMul(RatDiv(Num(index), Num(length)), Num(360))

\* Labels and measurement pass: segmentStartAngle + (anglePerHit / 2)
segmentCenterAngle(index, length) ==
    RatAdd(segmentStartAngle(index, length), RatDiv(anglePerHit(length), Num(2)))

\* Most signals in the list whose slots are laid out.
MaxSlots == 13

SlotInit ==
    /\ ChartIdle
    /\ pc = "slots"
    /\ arg \in 1..MaxSlots
    /\ res = <<>>

\* The render maps over scanHits: the wedge and the label of the next index.
SlotRender ==
    /\ pc = "slots"
    /\ Len(res) < arg
    /\ LET index == Len(res)
       IN res' = Append(res, [index |-> index,
                              startAngle |-> wedgeStartAngle(index, arg),
                              endAngle |-> wedgeEndAngle(index, arg),
                              labelAngle |-> segmentCenterAngle(index, arg)])
    /\ UNCHANGED <<pc, arg, chartVars>>

SlotNext == SlotRender

SlotSpec == SlotInit /\ [][SlotNext]_vars

-----------------------------------------------------------------------------
(* Rotation normalisation *)

\* Mutant of RotationTooLarge: the loop only runs above 180.
RotationTooLarge_Above180(rotation) == RatLess(Num(180), rotation)

\* while (rotation > 90)
RotationTooLarge(rotation) == RatLess(Num(90), rotation)

\* while (rotation < -90)
RotationTooSmall(rotation) == RatLess(rotation, Num(-90))

\* rotation = segmentCenterAngle + 90
baseRotation(centerAngle) == RatAdd(centerAngle, Num(90))

\* The two loops, run to completion.
RECURSIVE normalizeDown(_)
normalizeDown(rotation) ==
    IF RotationTooLarge(rotation) THEN normalizeDown(RatSub(rotation, Num(180))) ELSE rotation

RECURSIVE normalizeUp(_)
normalizeUp(rotation) ==
    IF RotationTooSmall(rotation) THEN normalizeUp(RatAdd(rotation, Num(180))) ELSE rotation

normalizeRotation(rotation) == normalizeUp(normalizeDown(rotation))

\* Largest centre angle (in degrees) handed to the normalisation.
MaxAngle == 540

\* Centre angles in whole and half degrees, on both sides of the range the
\* chart produces.
RotationInputs == {Rat(a, d) : a \in (0 - MaxAngle)..MaxAngle, d \in {1, 2}}

RotInit ==
    /\ ChartIdle
    /\ pc = "rotbase"
    /\ arg \in RotationInputs
    /\ res = [base |-> Num(0), rotation |-> Num(0)]

RotBase ==
    /\ pc = "rotbase"
    /\ res' = [base |-> baseRotation(arg), rotation |-> baseRotation(arg)]
    /\ pc' = "while_gt"
    /\ UNCHANGED <<arg, chartVars>>

RotSubtract ==
    /\ pc = "while_gt"
    /\ IF RotationTooLarge(res.rotation)
       THEN /\ res' = [res EXCEPT !.rotation = RatSub(res.rotation, Num(180))]
            /\ pc' = "while_gt"
       ELSE /\ res' = res
            /\ pc' = "while_lt"
    /\ UNCHANGED <<arg, chartVars>>

RotAdd ==
    /\ pc = "while_lt"
    /\ IF RotationTooSmall(res.rotation)
       THEN /\ res' = [res EXCEPT !.rotation = RatAdd(res.rotation, Num(180))]
            /\ pc' = "while_lt"
       ELSE /\ res' = res
            /\ pc' = "rotdone"
    /\ UNCHANGED <<arg, chartVars>>

RotNext == RotBase \/ RotSubtract \/ RotAdd

\* The loops are straight-line code of one render: they keep running.
RotationSpec == RotInit /\ [][RotNext]_vars /\ WF_vars(RotNext)

RotationNormalised ==
    pc = "rotdone" =>
        /\ ~RatLess(Num(90), res.rotation)
        /\ ~RatLess(res.rotation, Num(-90))
        /\ RatIsInteger(RatDiv(RatSub(res.rotation, res.base), Num(180)))
        /\ res.rotation = normalizeRotation(res.base)
        /\ normalizeRotation(res.rotation) = res.rotation
        /\ arg = Num(45) => res.base = Num(135) /\ res.rotation = Num(-45)

\* C9: the rotation normalisation terminates for every input, its result lies
\* in [-90, 90], is congruent to the input modulo 180 and is left unchanged by
\* normalising again; slot centre 45 gives base rotation 135 and rotation -45.
C9_RotationNormalisation == []RotationNormalised /\ <>(pc = "rotdone")

\* The normalisation finished for slot centre 45.
C9_Witness ==
    /\ pc = "rotdone"
    /\ arg = Num(45)
    /\ res.rotation = Num(-45)

\* The second loop has run: a normalised rotation that was raised from below -90.
C9_WitnessRaised ==
    /\ pc = "rotdone"
    /\ RatLess(res.base, Num(-90))

-----------------------------------------------------------------------------
(* Geometry of label positions.  Lengths are thousandths of a pixel and      *)
(* sines are thousandths; Math.sin is Bhaskara's rational approximation,     *)
(* which is exact at the multiples of 30 and 90 degrees.                    *)

centerX == 2500

centerY == 2500

scanHitRadius == 1350

desiredGap == 3

baseOffset == 75

\* CONFIG.positioning.microAdjustment (2.5), in tenths
microAdjustmentTenths == 25

measurementDelay == 100

\* 1000 * sin(angle), angle a rational number of degrees
SinMilli(angle) ==
    LET q == angle[2]
        half == 180 * q
        p == angle[1] % (2 * half)
        Arch(t) == (4000 * t * (half - t)) \div (40500 * q * q - t * (half - t))
    IN IF p <= half THEN Arch(p) ELSE 0 - Arch(p - half)

CosMilli(angle) == SinMilli(RatAdd(angle, Num(90)))

\* angleInRadians = (angleInDegrees - 90) * Math.PI / 180
polarToCartesian(cx, cy, radius, angleInDegrees) ==
    LET angle == RatSub(angleInDegrees, Num(90))
    IN [x |-> cx * 1000 + (radius * CosMilli(angle)) \div 1000,
        y |-> cy * 1000 + (radius * SinMilli(angle)) \div 1000]

\* Math.abs(Math.sin(angleInRadians * 2)) * CONFIG.positioning.microAdjustment
baselineShift(angle) == (Abs(SinMilli(RatMul(angle, Num(2)))) * microAdjustmentTenths) \div 10

\* Mutant of calculateTextPosition: the label is anchored at the ring-side
\* radius, the half width is not added.
calculateTextPosition_NoHalfWidth(bboxWidth, angle) ==
    polarToCartesian(centerX, centerY,
        (scanHitRadius + desiredGap - baseOffset) * 1000 - baselineShift(angle), angle)

\* bbox.width / 2, in thousandths
textHalfWidth(bboxWidth) == (bboxWidth * 1000) \div 2

\* Mutant of adjustedRadius: the half width is not added.
adjustedRadius_NoHalfWidth(bboxWidth, angle) ==
    (scanHitRadius + desiredGap - baseOffset) * 1000 - baselineShift(angle)

\* The radius of calculateTextPosition, in thousandths.
adjustedRadius(bboxWidth, angle) ==
    (scanHitRadius + desiredGap - baseOffset) * 1000 + textHalfWidth(bboxWidth)
        - baselineShift(angle)

calculateTextPosition(bboxWidth, angle) ==
    polarToCartesian(centerX, centerY, adjustedRadius(bboxWidth, angle), angle)

\* Mutant of fallbackPosition: the base offset is not subtracted.
fallbackPosition_NoBaseOffset(index, length) ==
    polarToCartesian(centerX, centerY, (scanHitRadius + desiredGap) * 1000,
                     segmentCenterAngle(index, length))

\* The catch branch of the measurement loop.
fallbackPosition(index, length) ==
    polarToCartesian(centerX, centerY, ((scanHitRadius + desiredGap) - baseOffset) * 1000,
                     segmentCenterAngle(index, length))

\* The initial estimate of the label render.
initialEstimate(index, length) ==
    polarToCartesian(centerX, centerY, ((scanHitRadius + desiredGap) - baseOffset) * 1000,
                     segmentCenterAngle(index, length))

\* labelPositions[index] || <initial estimate>
labelPosition(positions, index, length) ==
    IF index \in DOMAIN positions THEN positions[index] ELSE initialEstimate(index, length)

-----------------------------------------------------------------------------
(* transformData of PrintRadialChart *)

\* text.replace(/\s{2,}/g, ' '): every run of two or more white-space
\* characters becomes one space; run is the run being read.
RECURSIVE collapseFrom(_, _, _)
collapseFrom(str, k, run) ==
    LET flushed == IF Len(run) >= 2 THEN <<" ">> ELSE run
    IN IF k > Len(str) THEN flushed
       ELSE IF IsWhiteSpace(str[k]) THEN collapseFrom(str, k + 1, Append(run, str[k]))
       ELSE flushed \o <<str[k]>> \o collapseFrom(str, k + 1, <<>>)

cleanText(text) ==
    IF Falsy(text) \/ text = JS_TRUE THEN text ELSE collapseFrom(trim(text), 1, <<>>)

STR_Yes == <<"Y", "e", "s">>

transformDataPrint(records) ==
    [k \in 1..Len(records) |->
        ScanHit(Field(records[k], "ID"),
                cleanText(Field(records[k], "Title")),
                transformDomains(records[k]),
                cleanText(Field(records[k], "STEEP Category")),
                IF Field(records[k], "Participant Identified") \in {JS_TRUE, STR_Yes}
                THEN JS_TRUE ELSE JS_FALSE)]

-----------------------------------------------------------------------------
(* The chart component: data loading and the two-pass positioning effect *)

\* Most signals in a loaded list.
MaxSignals == 3

\* Most loadData calls on one mounted component (React runs a mount effect
\* again in development: StrictMode, Fast Refresh).
MaxLoads == 2

\* Clock readings the model follows, in steps of ClockStep.
MaxTicks == 4

\* The resolution of performance.now() in the model: one measurement delay.
ClockStep == measurementDelay

\* The throttle window of the timer callback.
throttleWindow == 100

TITLE_B == <<"B", " ">>

TXT_TwoDomains ==
    TXT_EquityAccess \o <<" ", "|", " ">> \o TXT_CURRICULUM

\* The records the data source returns.
RecordPool ==
    { RawRecord(<<"1">>, TITLE_A, TXT_TwoDomains, STR_Social, JS_TRUE),
      RawRecord(<<"2">>, TITLE_B, TXT_FooBar, Undefined, Undefined) }

RecordLists == UNION { [1..n -> RecordPool] : n \in 0..MaxSignals }

\* getBBox() of a mounted label: it throws, or returns a box of some width.
BBoxWidths == {0, 400}

BBoxOutcomes ==
    {[kind |-> "threw", width |-> 0]} \cup {[kind |-> "measured", width |-> w] : w \in BBoxWidths}

Unmounted == [kind |-> "unmounted", width |-> 0]

\* Mutant of ChartShown: the error state does not replace the chart.
ChartShown_IgnoresError(isLoading, initiallyLoaded, hasError) ==
    IF component = "PrintRadialChart" THEN ~isLoading ELSE ~(isLoading /\ ~initiallyLoaded)

\* Neither the loading screen nor the error screen is returned: RadialScanChart
\* returns the loading screen only before the first load has settled,
\* PrintRadialChart whenever loading is set.
ChartShown(isLoading, initiallyLoaded, hasError) ==
    /\ IF component = "PrintRadialChart" THEN ~isLoading ELSE ~(isLoading /\ ~initiallyLoaded)
    /\ ~hasError

\* The ref callbacks after a commit: one <text> per signal when the chart is shown.
MountedLabels(hits, isLoading, initiallyLoaded, hasError) ==
    IF ChartShown(isLoading, initiallyLoaded, hasError) THEN 0..(Len(hits) - 1) ELSE {}

\* useChartAnalytics builds trackChartRender anew on every render of
\* RadialScanChart (useAnalytics' config object is a fresh dependency each
\* time), so the positioning effect's dependencies change with every render.
DepsChangeOnEveryRender == component = "RadialScanChart"

\* Mutant of scheduleMeasurement: an empty list schedules a pass too.
scheduleMeasurement_Always(hits, gen) ==
    [pending |-> TRUE, at |-> now, hits |-> hits, gen |-> gen]

\* Mutant of scheduleMeasurement: the cleanup does not clear a pending
\* timeout, whose callback then runs over the list of its closure.
scheduleMeasurement_NoCleanup(hits, gen) ==
    IF timer.pending THEN timer
    ELSE IF Len(hits) = 0 THEN NoTimer
    ELSE [pending |-> TRUE, at |-> now, hits |-> hits, gen |-> gen]

\* The body of the positioning effect: nothing for an empty list, else a
\* timeout whose callback closes over the list.
scheduleMeasurement(hits, gen) ==
    IF Len(hits) = 0 THEN NoTimer
    ELSE [pending |-> TRUE, at |-> now, hits |-> hits, gen |-> gen]

\* The effect after a render that left the list alone: cleanup and re-run when
\* the dependencies changed, else the pending timeout stays.
effectAfterRender(rendered) ==
    IF rendered /\ DepsChangeOnEveryRender THEN scheduleMeasurement(scanHits, listGen) ELSE timer

transformFor(records) ==
    IF component = "PrintRadialChart" THEN transformDataPrint(records) ELSE transformData(records)

ChartInit ==
    /\ pc = "chart"
    /\ arg = <<>>
    /\ res = <<>>
    /\ component \in {"RadialScanChart", "PrintRadialChart"}
    /\ scanHits = <<>>
    /\ loading = TRUE
    /\ error = FALSE
    /\ hasInitiallyLoaded = FALSE
    /\ labelPositions = <<>>
    /\ textRefs = {}
    /\ timer = NoTimer
    /\ lastRenderTime = 0
    /\ renderCount = 0
    /\ now = ClockStep
    /\ pendingLoads = 1
    /\ loadsStarted = 1
    /\ listGen = 0
    /\ lastPass = NoPass

\* loadData is called again: setLoading(true), then the fetch is awaited.
LoadStart ==
    /\ pc = "chart"
    /\ loadsStarted < MaxLoads
    /\ loadsStarted' = loadsStarted + 1
    /\ pendingLoads' = pendingLoads + 1
    /\ loading' = TRUE
    /\ textRefs' = MountedLabels(scanHits, TRUE, hasInitiallyLoaded, error)
    /\ timer' = effectAfterRender(~loading)
    /\ UNCHANGED <<pureVars, component, scanHits, error, hasInitiallyLoaded, labelPositions,
                   lastRenderTime, renderCount, now, listGen, lastPass>>

\* The fetch resolved: transform, sort, setScanHits, setError(null), and the
\* finally block; the render that follows re-runs the positioning effect.
LoadSuccess ==
    /\ pc = "chart"
    /\ pendingLoads > 0
    /\ \E records \in RecordLists :
           LET sorted == sortScanHits(transformFor(records))
           IN /\ scanHits' = sorted
              /\ textRefs' = MountedLabels(sorted, FALSE, TRUE, FALSE)
              /\ timer' = scheduleMeasurement(sorted, listGen + 1)
    /\ listGen' = listGen + 1
    /\ error' = FALSE
    /\ loading' = FALSE
    /\ hasInitiallyLoaded' = TRUE
    /\ pendingLoads' = pendingLoads - 1
    /\ UNCHANGED <<pureVars, component, labelPositions, lastRenderTime, renderCount, now,
                   loadsStarted, lastPass>>

\* The fetch rejected: setError(message) and the finally block.
LoadFailure ==
    /\ pc = "chart"
    /\ pendingLoads > 0
    /\ error' = TRUE
    /\ loading' = FALSE
    /\ hasInitiallyLoaded' = TRUE
    /\ pendingLoads' = pendingLoads - 1
    /\ textRefs' = MountedLabels(scanHits, FALSE, TRUE, TRUE)
    /\ timer' = effectAfterRender(~error \/ loading \/ ~hasInitiallyLoaded)
    /\ UNCHANGED <<pureVars, component, scanHits, labelPositions, lastRenderTime, renderCount,
                   now, loadsStarted, listGen, lastPass>>

\* Mutant of measuredPositions: the first exception ends the pass and nothing
\* is committed for any label.
measuredPositions_AbortOnThrow(hits, mounted, outcome) ==
    IF \E index \in mounted : outcome[index].kind = "threw"
    THEN <<>>
    ELSE [index \in mounted |->
             calculateTextPosition(outcome[index].width, segmentCenterAngle(index, Len(hits)))]

\* The positions one pass computes over the list of its closure, given what
\* getBBox did for each mounted label.
measuredPositions(hits, mounted, outcome) ==
    [index \in mounted |->
        IF outcome[index].kind = "measured"
        THEN calculateTextPosition(outcome[index].width, segmentCenterAngle(index, Len(hits)))
        ELSE fallbackPosition(index, Len(hits))]

\* The timeout callback.
TimerFire ==
    /\ pc = "chart"
    /\ timer.pending
    /\ now >= timer.at + measurementDelay
    /\ IF now - lastRenderTime > throttleWindow
       THEN \E outcome \in [textRefs \cap (0..(Len(timer.hits) - 1)) -> BBoxOutcomes] :
                /\ labelPositions' = measuredPositions(timer.hits, DOMAIN outcome, outcome)
                /\ lastPass' = [gen |-> timer.gen,
                                length |-> Len(timer.hits),
                                outcome |-> [index \in 0..(Len(timer.hits) - 1) |->
                                                IF index \in DOMAIN outcome THEN outcome[index]
                                                ELSE Unmounted]]
                /\ renderCount' = IF component = "RadialScanChart" /\ renderCount = 0
                                  THEN renderCount + 1 ELSE renderCount
                /\ lastRenderTime' = now
                /\ timer' = IF DepsChangeOnEveryRender
                            THEN scheduleMeasurement(scanHits, listGen) ELSE NoTimer
       ELSE /\ timer' = NoTimer
            /\ UNCHANGED <<labelPositions, lastPass, renderCount, lastRenderTime>>
    /\ UNCHANGED <<pureVars, component, scanHits, loading, error, hasInitiallyLoaded, textRefs,
                   now, pendingLoads, loadsStarted, listGen>>

\* Any other state change of RadialScanChart (hover, selection, zoom, panel):
\* a render, after which the positioning effect runs again.
Interact ==
    /\ pc = "chart"
    /\ component = "RadialScanChart"
    /\ ChartShown(loading, hasInitiallyLoaded, error)
    /\ timer' = effectAfterRender(TRUE)
    /\ UNCHANGED <<pureVars, component, scanHits, loading, error, hasInitiallyLoaded,
                   labelPositions, textRefs, lastRenderTime, renderCount, now, pendingLoads,
                   loadsStarted, listGen, lastPass>>

\* The component unmounts: the effect's cleanup clears the pending timeout and
\* the refs of the labels are released; state setters called afterwards (by a
\* load still in flight) have no effect.
Unmount ==
    /\ pc = "chart"
    /\ pc' = "unmounted"
    /\ timer' = NoTimer
    /\ textRefs' = {}
    /\ UNCHANGED <<arg, res, component, scanHits, loading, error, hasInitiallyLoaded,
                   labelPositions, lastRenderTime, renderCount, now, pendingLoads,
                   loadsStarted, listGen, lastPass>>

\* The clock advances.
Tick ==
    /\ pc = "chart"
    /\ now < MaxTicks * ClockStep
    /\ now' = now + ClockStep
    /\ UNCHANGED <<pureVars, component, scanHits, loading, error, hasInitiallyLoaded,
                   labelPositions, textRefs, timer, lastRenderTime, renderCount, pendingLoads,
                   loadsStarted, listGen, lastPass>>

Next == LoadStart \/ LoadSuccess \/ LoadFailure \/ TimerFire \/ Interact \/ Unmount \/ Tick

Spec == ChartInit /\ [][Next]_vars

-----------------------------------------------------------------------------
(* Properties of the positioning effect *)

\* The positions a measurement pass over a list of the given length can give
\* the label of an index.
PassPositions(index, length) ==
    {fallbackPosition(index, length)}
        \cup {calculateTextPosition(w, segmentCenterAngle(index, length)) : w \in BBoxWidths}

zeroWidthPosition(index, length) ==
    polarToCartesian(centerX, centerY,
        (scanHitRadius + desiredGap - baseOffset) * 1000
            - baselineShift(segmentCenterAngle(index, length)),
        segmentCenterAngle(index, length))

\* C6 (as stated): after a pass, a label whose box was unavailable - element
\* not mounted, measured width 0, or getBBox threw - is placed exactly at the
\* Pass-1 position, with no width or baseline-shift term.
C6_NoBoxUsesEstimate ==
    \A index \in 0..(lastPass.length - 1) :
        (\/ lastPass.outcome[index].kind \in {"unmounted", "threw"}
         \/ lastPass.outcome[index].kind = "measured" /\ lastPass.outcome[index].width = 0)
            => labelPosition(labelPositions, index, lastPass.length)
                   = initialEstimate(index, lastPass.length)

\* C6 (amended): after a pass, a label whose element was not mounted or whose
\* getBBox threw is placed exactly at the Pass-1 position; a box of width 0
\* counts as measured and is placed by the Pass-2 formula with half width 0,
\* that is at the Pass-1 radius less the baseline shift.
C6_FailedMeasurementUsesEstimate ==
    \A index \in 0..(lastPass.length - 1) :
        /\ lastPass.outcome[index].kind \in {"unmounted", "threw"}
               => labelPosition(labelPositions, index, lastPass.length)
                      = initialEstimate(index, lastPass.length)
        /\ (lastPass.outcome[index].kind = "measured" /\ lastPass.outcome[index].width = 0)
               => labelPosition(labelPositions, index, lastPass.length)
                      = zeroWidthPosition(index, lastPass.length)

\* A pass over three labels in which getBBox threw for one, returned width 0
\* for another (at a slot centre with a baseline shift) and a wide box for
\* the third.
C6_Witness ==
    /\ pc = "chart"
    /\ lastPass.length = 3
    /\ ChartShown(loading, hasInitiallyLoaded, error)
    /\ lastPass.outcome[0].kind = "measured" /\ lastPass.outcome[0].width = 0
    /\ lastPass.outcome[1].kind = "threw"
    /\ lastPass.outcome[2].kind = "measured" /\ lastPass.outcome[2].width > 0
    /\ labelPositions[0] # initialEstimate(0, 3)
    /\ labelPositions[2] # initialEstimate(2, 3)

\* A pass that ran while no label was mounted.
C6_WitnessUnmounted ==
    /\ pc = "chart"
    /\ lastPass.length > 0
    /\ \A index \in 0..(lastPass.length - 1) : lastPass.outcome[index].kind = "unmounted"

\* The label of an index has been placed from a successful measurement of the
\* list in state.
Measured(gen, pass, index) ==
    /\ pass.gen = gen
    /\ index < pass.length
    /\ pass.outcome[index].kind = "measured"

\* C7: within one signal-list generation the layout state of an index is
\* one-way: once Measured, no later pass over the same list puts it back to
\* Estimated.
C7_MeasuredIsOneWay ==
    [][\A index \in 0..(Len(scanHits) - 1) :
           (listGen' = listGen /\ Measured(listGen, lastPass, index))
               => Measured(listGen', lastPass', index)]_vars

-----------------------------------------------------------------------------
(* Further properties of transformData *)

\* No canonical domain id is at two places of the list.
HasNoDuplicates(seq) ==
    \A i, j \in 1..Len(seq) : (seq[i] \in Range(DOMAIN_ORDER) /\ seq[i] = seq[j]) => i = j

\* C11: for every record, the domains list transformData produces is a set:
\* no canonical domain id occurs in it more than once.
C11_DomainsAreASet ==
    pc = "transformed" => \A k \in 1..Len(res) : HasNoDuplicates(res[k].domains)

-----------------------------------------------------------------------------
(* calculateTextPosition for two measured labels *)

\* Largest number of signals of the chart the two labels belong to.
MaxLabels == 4

\* Largest measured width, in steps of WidthStep.
MaxWidthSteps == 3

WidthStep == 50

MeasuredWidths == {n * WidthStep : n \in 0..MaxWidthSteps}

\* A measured label: its index in a list of the given length and the width
\* getBBox returned for it; two labels of one pass belong to the same list.
MeasuredLabels ==
    {[index |-> i, length |-> n, width |-> w] :
        i \in 0..(MaxLabels - 1), n \in 1..MaxLabels, w \in MeasuredWidths}

LabelAngle(label) == segmentCenterAngle(label.index, label.length)

RadiusInit ==
    /\ ChartIdle
    /\ pc = "measure"
    /\ arg \in {pair \in MeasuredLabels \X MeasuredLabels :
                    /\ pair[1].length = pair[2].length
                    /\ \A k \in 1..2 : pair[k].index < pair[k].length}
    /\ res = <<>>

\* The try branch of the measurement loop, for each of the two labels.
RadiusApply ==
    /\ pc = "measure"
    /\ res' = [k \in 1..2 |->
                  [radius |-> adjustedRadius(arg[k].width, LabelAngle(arg[k])),
                   position |-> calculateTextPosition(arg[k].width, LabelAngle(arg[k]))]]
    /\ pc' = "measured"
    /\ UNCHANGED <<arg, chartVars>>

RadiusNext == RadiusApply

RadiusSpec == RadiusInit /\ [][RadiusNext]_vars

\* Distance from the chart centre to the label's near edge, in thousandths.
NearEdge(k) == res[k].radius - textHalfWidth(arg[k].width)

\* Of two labels at the same slot angle the wider one gets the strictly
\* larger radius.
WiderIsFarther ==
    \A j, k \in 1..2 :
        (LabelAngle(arg[j]) = LabelAngle(arg[k]) /\ arg[j].width < arg[k].width)
            => res[j].radius < res[k].radius

\* C12 (as stated): correctedRadius - boxWidth/2 has the same value for all
\* measured labels, regardless of measured width and of slot angle, and of
\* two labels at the same slot angle the wider one gets the strictly larger
\* correctedRadius.
C12_NearEdgeUniform ==
    pc = "measured" => (NearEdge(1) = NearEdge(2) /\ WiderIsFarther)

\* C12 (amended): correctedRadius - boxWidth/2 does not depend on the measured
\* width but does depend on the slot angle: it is scanHitRadius + desiredGap -
\* baseOffset less the baseline shift |sin(2 * angle)| * microAdjustment, so
\* two labels differ in it by at most microAdjustment; of two labels at the
\* same slot angle the wider one gets the strictly larger correctedRadius.
C12_NearEdgeDependsOnAngleOnly ==
    pc = "measured" =>
        /\ \A k \in 1..2 :
               NearEdge(k) = (scanHitRadius + desiredGap - baseOffset) * 1000
                                 - baselineShift(LabelAngle(arg[k]))
        /\ LabelAngle(arg[1]) = LabelAngle(arg[2]) => NearEdge(1) = NearEdge(2)
        /\ Abs(NearEdge(1) - NearEdge(2)) <= microAdjustmentTenths * 100
        /\ WiderIsFarther

\* Two labels at the slot centre of 60 degrees, one wider than the other, and
\* a near edge that the baseline shift has moved.
C12_Witness ==
    /\ pc = "measured"
    /\ LabelAngle(arg[1]) = Num(60)
    /\ LabelAngle(arg[2]) = Num(60)
    /\ arg[1].width < arg[2].width
    /\ res[1].radius < res[2].radius
    /\ NearEdge(1) < (scanHitRadius + desiredGap - baseOffset) * 1000

-----------------------------------------------------------------------------
(* Further properties of the measurement pass *)

\* C13: within one pass, a getBBox exception or a missing text element for
\* one signal does not abort the pass: every signal whose label is mounted
\* and measured has its Pass-2 position in the map the pass committed, and
\* the map has an entry for every mounted label.
C13_FailureIsPerSignal ==
    lastPass.gen > 0 =>
        /\ DOMAIN labelPositions =
               {index \in 0..(lastPass.length - 1) : lastPass.outcome[index].kind # "unmounted"}
        /\ \A index \in 0..(lastPass.length - 1) :
               lastPass.outcome[index].kind = "measured" =>
                   labelPositions[index] =
                       calculateTextPosition(lastPass.outcome[index].width,
                                             segmentCenterAngle(index, lastPass.length))

\* A pass over two labels: getBBox threw for the first and the second still
\* got its measured position.
C13_Witness ==
    /\ pc = "chart"
    /\ lastPass.length = 2
    /\ lastPass.outcome[0].kind = "threw"
    /\ lastPass.outcome[1].kind = "measured"
    /\ lastPass.outcome[1].width > 0
    /\ labelPositions[0] = fallbackPosition(0, 2)
    /\ labelPositions[1] # fallbackPosition(1, 2)


\* A step in which the timeout callback measured: the only assignment to
\* lastRenderTimeRef.current, always to a later clock reading.
PassRan == lastRenderTime' # lastRenderTime

C14_WitnessUnmounted ==
    /\ pc = "unmounted"
    /\ listGen = 1
    /\ Len(scanHits) > 0
    /\ lastPass.gen = 0
    /\ now >= 2 * ClockStep


\* C15: the layout settles: trackChartRender keeps its identity across
\* renders, so that a pass committing new positions does not by itself
\* schedule another measurement pass - after a step in which a pass ran no
\* measurement timer is pending.
C15_PassSchedulesNoPass ==
    [][PassRan => ~timer'.pending]_vars

-----------------------------------------------------------------------------
(* PrintRadialChart against RadialScanChart on the same raw records *)

\* Most records in a compared list.
MaxCompared == 2

STR_No == <<"N", "o">>

\* 'Social' with a leading space, as a hand-edited table cell has it.
TXT_SpaceSocial == <<" ">> \o STR_Social

ComparedCategories == {STR_Social, TXT_SpaceSocial, STR_Technological, Undefined}

ComparedFlags == {JS_TRUE, Undefined, STR_Yes, STR_No}

ComparedRecords ==
    UNION { { [k \in 1..n |-> RawRecord(<<k>>, TITLE_A, TXT_EquityAccess, f[k][1], f[k][2])] :
                f \in [1..n -> ComparedCategories \X ComparedFlags] } : n \in 0..MaxCompared }

CompareInit ==
    /\ ChartIdle
    /\ pc = "compare"
    /\ arg \in ComparedRecords
    /\ res = <<>>

\* loadData of each component on the same response: transform, then sort.
CompareApply ==
    /\ pc = "compare"
    /\ res' = [interactive |-> sortScanHits(transformData(arg)),
               print |-> sortScanHits(transformDataPrint(arg))]
    /\ pc' = "compared"
    /\ UNCHANGED <<arg, chartVars>>

CompareNext == CompareApply

CompareSpec == CompareInit /\ [][CompareNext]_vars

\* What the layout uses of a signal: its identity, its domains, its category
\* and whether the participant flag is set.
LayoutView(hit) ==
    [id |-> hit.id, domains |-> hit.domains, steepCategory |-> hit.steepCategory,
     flagged |-> ~Falsy(hit.participantIdentified)]

\* C16: for every list of raw records PrintRadialChart and RadialScanChart
\* compute the same layout: the same transformed signals (domains, category,
\* participant flag) in the same sorted order, hence the same slots and
\* positions.
C16_PrintComputesSameLayout ==
    pc = "compared" =>
        /\ Len(res.print) = Len(res.interactive)
        /\ \A k \in 1..Len(res.print) :
               LayoutView(res.print[k]) = LayoutView(res.interactive[k])

\* What remains of C16: for records whose category has no surrounding or
\* repeated white space and whose flag is true, 'Yes' or absent, the two
\* components compute the same signals in the same order.
C16_SameLayoutForCleanRecords ==
    pc = "compared" =>
        ((\A k \in 1..Len(arg) :
              /\ arg[k]["STEEP Category"] # TXT_SpaceSocial
              /\ arg[k]["Participant Identified"] # STR_No)
            => /\ Len(res.print) = Len(res.interactive)
               /\ \A k \in 1..Len(res.print) :
                      LayoutView(res.print[k]) = LayoutView(res.interactive[k]))

-----------------------------------------------------------------------------
(* The render of the signal labels *)

\* cleanTitle.length > 55
titleLimit == 55

\* cleanTitle.substring(0, 52)
titleKept == 52

\* The outcome of a render in which an expression threw: the error leaves
\* the component and the error boundary replaces the whole chart.
RenderThrew == << <<"#threw">> >>

\* cleanTitle.length > 55 ? cleanTitle.substring(0, 52) + "..." : cleanTitle
\* Mutant of truncatedTitle: the length test and the cut on the raw title.
truncatedTitle_Untrimmed(title) ==
    IF Len(title) > titleLimit
    THEN SubSeq(title, 1, titleKept) \o <<".", ".", ".">>
    ELSE trim(title)

truncatedTitle(title) ==
    LET cleanTitle == trim(title)
    IN IF Len(cleanTitle) > titleLimit
       THEN SubSeq(cleanTitle, 1, titleKept) \o <<".", ".", ".">>
       ELSE cleanTitle

\* Mutant of renderLabels: a signal without a title is given an empty label.
renderLabels_SkipMissingTitle(hits) ==
    [k \in 1..Len(hits) |->
        IF hits[k].title = Undefined THEN <<>> ELSE truncatedTitle(hits[k].title)]

\* scanHits.map of the signal labels: scanHit.title.trim() throws a TypeError
\* when the title is undefined, and the exception ends the render.
renderLabels(hits) ==
    IF \E k \in 1..Len(hits) : hits[k].title = Undefined
    THEN RenderThrew
    ELSE [k \in 1..Len(hits) |-> truncatedTitle(hits[k].title)]

\* Most records in a rendered list.
MaxRendered == 3

TITLE_Padded == <<" ", "C", " ">>

\* A record with the given Title, or without a Title field.
TitledRecord(id, title) ==
    IF title = Undefined
    THEN ("ID" :> id) @@ ("Domain" :> TXT_EquityAccess) @@ ("STEEP Category" :> STR_Social)
    ELSE RawRecord(id, title, TXT_EquityAccess, STR_Social, Undefined)

RenderedTitles == {TITLE_A, TITLE_Padded, <<>>, Undefined}

RenderedRecords ==
    UNION { { [k \in 1..n |-> TitledRecord(<<k>>, f[k])] : f \in [1..n -> RenderedTitles] } :
              n \in 0..MaxRendered }

RenderInit ==
    /\ ChartIdle
    /\ pc = "load"
    /\ arg \in [chart : {"RadialScanChart", "PrintRadialChart"}, records : RenderedRecords]
    /\ res = <<>>

\* loadData: transform and sort.
RenderLoad ==
    /\ pc = "load"
    /\ res' = [hits |-> sortScanHits(IF arg.chart = "PrintRadialChart"
                                    THEN transformDataPrint(arg.records)
                                    ELSE transformData(arg.records)),
               labels |-> <<>>]
    /\ pc' = "loaded"
    /\ UNCHANGED <<arg, chartVars>>

\* The render of the chart with the loaded list.
RenderChart ==
    /\ pc = "loaded"
    /\ res' = [res EXCEPT !.labels = renderLabels(res.hits)]
    /\ pc' = "rendered"
    /\ UNCHANGED <<arg, chartVars>>

RenderNext == RenderLoad \/ RenderChart

RenderSpec == RenderInit /\ [][RenderNext]_vars

\* C17: a record whose Title is absent or empty does not make the render
\* fail for the whole chart: the render completes, and every signal that has
\* a title is rendered with its label.
C17_BadTitleIsIsolated ==
    pc = "rendered" =>
        \A k \in 1..Len(res.hits) :
            res.hits[k].title # Undefined =>
                /\ res.labels # RenderThrew
                /\ Len(res.labels) = Len(res.hits)
                /\ res.labels[k] = truncatedTitle(res.hits[k].title)

\* What remains of C17: a record whose Title is the empty string is rendered
\* with an empty label and the other records with theirs.
C17_EmptyTitleIsIsolated ==
    pc = "rendered" =>
        ((\A k \in 1..Len(res.hits) : res.hits[k].title # Undefined)
            => /\ Len(res.labels) = Len(res.hits)
               /\ \A k \in 1..Len(res.hits) :
                      res.labels[k] = truncatedTitle(res.hits[k].title))

-----------------------------------------------------------------------------
(* Properties of loadData *)

\* A step in which a call of loadData ran to its end.
LoadFinished == pendingLoads' = pendingLoads - 1

\* C18: when fetching, transforming or sorting throws, loadData ends in the
\* error state: error is set, the signal list is left as it was (empty on a
\* first load) and the error screen is rendered instead of the chart; on
\* every path loading is false and hasInitiallyLoaded is true once loadData
\* has finished, and on success error is null.
C18_LoadEndsInDefinedState ==
    /\ []((pc = "chart" /\ error) => (textRefs = {} /\ ~ChartShown(loading, hasInitiallyLoaded, error)))
    /\ [](listGen = 0 => scanHits = <<>>)
    /\ [][LoadFinished =>
              /\ ~loading'
              /\ hasInitiallyLoaded'
              /\ IF listGen' = listGen
                 THEN error' /\ scanHits' = scanHits /\ labelPositions' = labelPositions
                 ELSE ~error']_vars

\* A first load that failed: the error screen, with an empty list.
C18_Witness ==
    /\ pc = "chart"
    /\ error
    /\ ~loading
    /\ hasInitiallyLoaded
    /\ listGen = 0
    /\ scanHits = <<>>
    /\ pendingLoads = 0

\* A reload that failed after a list had been loaded and measured: the list
\* is kept and the error screen hides it.
C18_WitnessReload ==
    /\ pc = "chart"
    /\ error
    /\ Len(scanHits) > 0
    /\ lastPass.gen = listGen
    /\ textRefs = {}

-----------------------------------------------------------------------------
(* The empty signal list *)

C19_EmptyListSchedulesNothing ==
    /\ lastPass.gen > 0 => lastPass.length > 0
    /\ (pc = "chart" /\ scanHits = <<>>) => (~timer.pending /\ textRefs = {})

-----------------------------------------------------------------------------
(* The render of the domain segments *)

\* CONFIG.domainRadii
domainRadii ==
    << <<"teaching-learning", 375>>,
       <<"equity-access", 525>>,
       <<"curriculum-reform", 675>>,
       <<"education-society", 825>>,
       <<"technology-digital", 975>>,
       <<"investment-governance", 1125>>,
       <<"teacher-empowerment", 1275>> >>

\* innerRadius = 225
innermostBoundary == 225

\* CONFIG.domainRadii[domainId]: <<radius>>, or <<>> for undefined.
ringRadius(domainId) ==
    IF \E i \in 1..Len(domainRadii) : domainRadii[i][1] = domainId
    THEN <<domainRadii[CHOOSE i \in 1..Len(domainRadii) : domainRadii[i][1] = domainId][2]>>
    ELSE <<>>

\* DOMAIN_ORDER[domainIndex - 1]: undefined outside the array.
previousDomainId(domainId) ==
    LET indexInOrder == IndexOf(DOMAIN_ORDER, domainId)
    IN IF indexInOrder - 1 >= 0 /\ indexInOrder - 1 < Len(DOMAIN_ORDER)
       THEN DOMAIN_ORDER[indexInOrder] ELSE NoValue

wedgeInnerRadius(domainId) ==
    IF domainId = "teaching-learning" THEN <<innermostBoundary>>
    ELSE ringRadius(previousDomainId(domainId))

\* scanHit.domains.map of the domain segments: one <path> per element.
renderWedges(hits, index) ==
    LET domains == hits[index + 1].domains
    IN [j \in 1..Len(domains) |->
           [domainId |-> domains[j],
            innerRadius |-> wedgeInnerRadius(domains[j]),
            outerRadius |-> ringRadius(domains[j]),
            startAngle |-> wedgeStartAngle(index, Len(hits)),
            endAngle |-> wedgeEndAngle(index, Len(hits))]]

\* Most records in a list whose segments are rendered.
MaxWedgeSignals == 2

TXT_EquityTwice == TXT_EquityAccess \o <<"|">> \o TXT_EquityAccess

WedgeDomainStrings ==
    {<<>>, TXT_TeachingLearning, TXT_EquityAccess, TXT_TwoDomains, KEY_TeacherEmpowerment,
     TXT_FooBar, TXT_EquityTwice, KEY_constructor}

WedgeRecords ==
    UNION { { [k \in 1..n |-> RawRecord(<<k>>, TITLE_A, f[k], STR_Social, Undefined)] :
                f \in [1..n -> WedgeDomainStrings] } : n \in 0..MaxWedgeSignals }

WedgeInit ==
    /\ ChartIdle
    /\ pc = "load"
    /\ arg \in [chart : {"RadialScanChart", "PrintRadialChart"}, records : WedgeRecords]
    /\ res = <<>>

\* loadData: transform and sort.
WedgeLoad ==
    /\ pc = "load"
    /\ res' = [hits |-> sortScanHits(IF arg.chart = "PrintRadialChart"
                                    THEN transformDataPrint(arg.records)
                                    ELSE transformData(arg.records)),
               wedges |-> <<>>]
    /\ pc' = "loaded"
    /\ UNCHANGED <<arg, chartVars>>

\* The render of the domain segments of every signal.
WedgeRender ==
    /\ pc = "loaded"
    /\ res' = [res EXCEPT !.wedges = [k \in 1..Len(res.hits) |-> renderWedges(res.hits, k - 1)]]
    /\ pc' = "wedges"
    /\ UNCHANGED <<arg, chartVars>>

WedgeNext == WedgeLoad \/ WedgeRender

WedgeSpec == WedgeInit /\ [][WedgeNext]_vars

\* The ring radius of the domain before domainId in DOMAIN_ORDER, the
\* innermost boundary for the first domain.
PrecedingRingRadius(domainId) ==
    LET i == CHOOSE n \in 1..Len(DOMAIN_ORDER) : DOMAIN_ORDER[n] = domainId
    IN IF i = 1 THEN innermostBoundary ELSE domainRadii[i - 1][2]

\* The wedges of one signal are one per domain of the signal, each on the
\* band below its domain's ring and over the signal's slot, and bands of
\* different domains do not overlap.
WedgesMatchDomains(hit, index, length, wedges) ==
    /\ Len(wedges) = Len(hit.domains)
    /\ \A d \in Range(hit.domains) :
           Cardinality({j \in 1..Len(wedges) : wedges[j].domainId = d}) = 1
    /\ \A j \in 1..Len(wedges) :
           /\ wedges[j].domainId \in Range(DOMAIN_ORDER)
           /\ wedges[j].outerRadius = ringRadius(wedges[j].domainId)
           /\ wedges[j].outerRadius # <<>>
           /\ wedges[j].innerRadius = <<PrecedingRingRadius(wedges[j].domainId)>>
           /\ wedges[j].innerRadius[1] < wedges[j].outerRadius[1]
           /\ wedges[j].startAngle = wedgeStartAngle(index, length)
           /\ wedges[j].endAngle = wedgeEndAngle(index, length)
    /\ \A i, j \in 1..Len(wedges) :
           wedges[i].domainId # wedges[j].domainId =>
               \/ wedges[i].outerRadius[1] <= wedges[j].innerRadius[1]
               \/ wedges[j].outerRadius[1] <= wedges[i].innerRadius[1]

\* C20: for each signal and each domain d in its domains exactly one wedge is
\* drawn, from the ring radius of the domain preceding d in canonical order
\* (225 for the first domain) to d's own ring radius, so inner < outer, the
\* bands of different domains do not overlap and a signal in k domains has k
\* wedges that all span its slot.
C20_OneWedgePerDomain ==
    pc = "wedges" =>
        \A k \in 1..Len(res.hits) :
            WedgesMatchDomains(res.hits[k], k - 1, Len(res.hits), res.wedges[k])

\* What remains of C20: it holds for every signal whose domains list is a
\* duplicate-free list of canonical ids.
C20_HoldsForCanonicalSets ==
    pc = "wedges" =>
        \A k \in 1..Len(res.hits) :
            (/\ Range(res.hits[k].domains) \subseteq Range(DOMAIN_ORDER)
             /\ Cardinality(Range(res.hits[k].domains)) = Len(res.hits[k].domains))
                => WedgesMatchDomains(res.hits[k], k - 1, Len(res.hits), res.wedges[k])

-----------------------------------------------------------------------------
(* The third sort key *)

\* Most signals in a list sorted on the third key.
MaxTieLen == 2

TieDomainIds == {"teaching-learning", "curriculum-reform", "investment-governance"}

\* Every list of up to three of the ids, repetitions included.
TieDomainLists ==
    UNION { [1..n -> TieDomainIds] : n \in 0..Cardinality(TieDomainIds) }

TieInputs ==
    UNION { { [i \in 1..n |-> ScanHit(i, TITLE_A, f[i], STR_Social, JS_FALSE)] :
              f \in [1..n -> TieDomainLists] } : n \in 0..MaxTieLen }

TieInit ==
    /\ ChartIdle
    /\ pc = "tie"
    /\ arg \in TieInputs
    /\ res = <<>>

TieApply ==
    /\ pc = "tie"
    /\ res' = sortScanHits(arg)
    /\ pc' = "tied"
    /\ UNCHANGED <<arg, chartVars>>

TieNext == TieApply

TieSpec == TieInit /\ [][TieNext]_vars

\* Among the domains other than the innermost one the domain of the smallest
\* canonical index; the innermost domain when no other remains.
NextDomain(domains) ==
    LET innermost == MinDomain(domains)
        others == Range(domains) \ {innermost}
    IN IF others = {} THEN innermost
       ELSE CHOOSE d \in others :
                \A o \in others : IndexOf(DOMAIN_ORDER, d) <= IndexOf(DOMAIN_ORDER, o)

\* C21: getNextOutermostDomain returns, among the signal's domains other than
\* the innermost one, the domain of the smallest canonical index, and the
\* innermost domain itself when no other remains; signals equal on category
\* and innermost domain come out in ascending canonical index of this value.
C21_NextOutermostDomainOrder ==
    pc = "tied" =>
        /\ \A k \in 1..Len(res) :
               getNextOutermostDomain(res[k].domains, getInnermostDomain(res[k].domains))
                   = NextDomain(res[k].domains)
        /\ \A i, j \in 1..Len(res) :
               (/\ i < j
                /\ steepIndex(res[i]) = steepIndex(res[j])
                /\ domainIndex(res[i]) = domainIndex(res[j]))
                   => IndexOf(DOMAIN_ORDER, NextDomain(res[i].domains))
                          <= IndexOf(DOMAIN_ORDER, NextDomain(res[j].domains))

\* Two signals with the same innermost domain, given in descending order of
\* the next domain (the first with a repeated innermost domain and two other
\* domains), come out swapped.
C21_Witness ==
    /\ pc = "tied"
    /\ Len(arg) = 2
    /\ arg[1].domains = <<"investment-governance", "teaching-learning", "teaching-learning">>
    /\ arg[2].domains = <<"teaching-learning", "curriculum-reform">>
    /\ res = <<arg[2], arg[1]>>

-----------------------------------------------------------------------------
(* The text of a label *)

\* Longest title body tried.
MaxTitleLen == 57

TitleAlphabet == <<"a", "b", "c">>

\* A title of n characters without whitespace.
TitleBody(n) == [i \in 1..n |-> TitleAlphabet[(i % 3) + 1]]

TITLE_DoubleSpace == <<"A", " ", " ", "B">>
TITLE_Tab == <<"A", "\t", "B">>
TITLE_SingleSpace == <<"A", " ", "B">>

TitlePadding == {<<>>, <<" ">>, <<" ", " ", " ", " ">>}

TitleTexts ==
    { lead \o TitleBody(n) \o trail :
        lead \in {<<>>, <<" ">>}, n \in 0..MaxTitleLen, trail \in TitlePadding }
    \cup {TITLE_DoubleSpace, TITLE_Tab, TITLE_SingleSpace}

TitleInit ==
    /\ ChartIdle
    /\ pc = "load"
    /\ arg \in [chart : {"RadialScanChart", "PrintRadialChart"}, title : TitleTexts]
    /\ res = <<>>

\* loadData with one record carrying the title.
TitleLoad ==
    /\ pc = "load"
    /\ LET records == <<RawRecord("1", arg.title, TXT_EquityAccess, STR_Social, Undefined)>>
       IN res' = [hits |-> sortScanHits(IF arg.chart = "PrintRadialChart"
                                        THEN transformDataPrint(records)
                                        ELSE transformData(records)),
                  labels |-> <<>>,
                  measured |-> <<>>]
    /\ pc' = "loaded"
    /\ UNCHANGED <<arg, chartVars>>

\* The render: the text element of the signal holds the truncated title.
TitleRender ==
    /\ pc = "loaded"
    /\ res' = [res EXCEPT !.labels = renderLabels(res.hits)]
    /\ pc' = "rendered"
    /\ UNCHANGED <<arg, chartVars>>

\* The measuring pass: getBBox is taken of the mounted text element, whose
\* text is what the render put there.
TitleMeasure ==
    /\ pc = "rendered"
    /\ res' = [res EXCEPT !.measured = res.labels]
    /\ pc' = "measured"
    /\ UNCHANGED <<arg, chartVars>>

TitleNext == TitleLoad \/ TitleRender \/ TitleMeasure

TitleSpec == TitleInit /\ [][TitleNext]_vars

\* The trimmed title when it has at most 55 characters, else its first 52
\* characters and "...".
LabelOfTrimmed(trimmed) ==
    IF Len(trimmed) <= 55 THEN trimmed
    ELSE [i \in 1..55 |-> IF i <= 52 THEN trimmed[i] ELSE "."]

IsNormalisedText(text) ==
    \A i \in 1..Len(text) :
        IsWhiteSpace(text[i]) =>
            /\ text[i] = " "
            /\ 1 < i
            /\ i < Len(text)
            /\ ~IsWhiteSpace(text[i + 1])

\* C23: before a signal's title is measured or laid out it has been trimmed
\* and every internal run of whitespace has been collapsed to a single space.
C23_TitleWhitespaceIsNormalised ==
    pc \in {"rendered", "measured"} => IsNormalisedText(res.labels[1])

\* The part of C23 the code keeps: the text has no leading or trailing
\* whitespace.
C23_TitleIsTrimmed ==
    pc \in {"rendered", "measured"} =>
        (res.labels[1] # <<>> =>
            /\ ~IsWhiteSpace(res.labels[1][1])
            /\ ~IsWhiteSpace(Last(res.labels[1])))

-----------------------------------------------------------------------------
(* The retry wrappers of the data fetch *)

RETRY_CONFIG ==
    [maxRetries |-> 3, baseDelay |-> 1000, maxDelay |-> 10000, backoffMultiplier |-> 2]

RECURSIVE Pow(_, _)
Pow(base, exponent) == IF exponent = 0 THEN 1 ELSE base * Pow(base, exponent - 1)

\* Mutant of calculateBackoffDelay: the delay without the cap.
calculateBackoffDelay_Uncapped(attempt, baseDelay, maxDelay, multiplier) ==
    baseDelay * Pow(multiplier, attempt)

calculateBackoffDelay(attempt, baseDelay, maxDelay, multiplier) ==
    LET delay == baseDelay * Pow(multiplier, attempt)
    IN IF delay <= maxDelay THEN delay ELSE maxDelay

retryableStatuses == {408, 429, 500, 502, 503, 504}

\* An error without a response has response <<>>, one with a response of
\* status s has response <<s>>.
isRetryableError(caught) ==
    IF caught.response = <<>> THEN TRUE
    ELSE caught.response[1] \in retryableStatuses

\* Largest maxRetries a caller passes.
MaxRetriesTried == 3

BaseDelaysTried == {RETRY_CONFIG.baseDelay, 4 * RETRY_CONFIG.baseDelay}

\* What one request can end in: a response of some status, or no response
\* at all (network failure, timeout).
StatusesTried == {200, 401, 404, 429, 503}
AttemptOutcomes == {<<>>} \cup { <<s>> : s \in StatusesTried }

IsSuccess(outcome) == outcome # <<>> /\ outcome[1] \in 200..299

\* The error the catch block sees. axios rejects with an error carrying the
\* response; fetchWithRetry throws a plain Error('HTTP <status>: ...') for a
\* response that is not ok, and fetch itself rejects with a TypeError:
\* neither has a response property.
caughtError(wrapper, outcome) ==
    [response |-> IF wrapper = "axiosWithRetry" THEN outcome ELSE <<>>,
     message |-> outcome]

NoError == [response |-> <<>>, message |-> <<0>>]
NoResult == <<0>>

RetryInit ==
    /\ ChartIdle
    /\ pc = "attempt"
    /\ arg \in [wrapper : {"axiosWithRetry", "fetchWithRetry"},
                maxRetries : 0..MaxRetriesTried,
                baseDelay : BaseDelaysTried]
    /\ res = [attempt |-> 0, requests |-> 0, waits |-> <<>>, lastError |-> NoError,
              returned |-> NoResult, thrown |-> <<>>]

\* The body of the for loop up to the first await that ends it: the request
\* settles; a success is returned, a failure is caught and either ends the
\* loop (last attempt) or starts the sleep.
RetryAttempt ==
    /\ pc = "attempt"
    /\ \E outcome \in AttemptOutcomes :
         IF IsSuccess(outcome)
         THEN /\ res' = [res EXCEPT !.requests = @ + 1, !.returned = outcome]
              /\ pc' = "returned"
         ELSE LET caught == caughtError(arg.wrapper, outcome)
              IN IF res.attempt = arg.maxRetries
                 THEN /\ res' = [res EXCEPT
                            !.requests = @ + 1,
                            !.lastError = caught,
                            !.thrown = <<[failedAfter |-> arg.maxRetries + 1,
                                          cause |-> caught.message]>>]
                      /\ pc' = "threw"
                 ELSE /\ res' = [res EXCEPT
                            !.requests = @ + 1,
                            !.lastError = caught,
                            !.waits = Append(@, calculateBackoffDelay(
                                          res.attempt, arg.baseDelay,
                                          RETRY_CONFIG.maxDelay,
                                          RETRY_CONFIG.backoffMultiplier))]
                      /\ pc' = "sleeping"
    /\ UNCHANGED <<arg, chartVars>>

\* The sleep ends and the loop goes to its next attempt.
RetryWake ==
    /\ pc = "sleeping"
    /\ res' = [res EXCEPT !.attempt = @ + 1]
    /\ pc' = "attempt"
    /\ UNCHANGED <<arg, chartVars>>

RetryNext == RetryAttempt \/ RetryWake

\* Every request settles (axios is given a timeout) and every sleep ends.
RetrySpec == RetryInit /\ [][RetryNext]_vars /\ WF_vars(RetryNext)

RetryDone == pc \in {"returned", "threw"}

ExpectedWait(k) ==
    LET uncapped == arg.baseDelay * (2 ^ (k - 1))
    IN IF uncapped < 10000 THEN uncapped ELSE 10000

RetryIsBounded ==
    /\ res.requests <= arg.maxRetries + 1
    /\ res.waits = [k \in 1..Len(res.waits) |-> ExpectedWait(k)]
    /\ pc = "attempt" => Len(res.waits) = res.requests
    /\ pc = "sleeping" => Len(res.waits) = res.requests
    /\ RetryDone => Len(res.waits) = res.requests - 1
    /\ pc = "returned" => IsSuccess(res.returned) /\ res.thrown = <<>>
    /\ pc = "threw" =>
           /\ res.requests = arg.maxRetries + 1
           /\ res.returned = NoResult
           /\ res.thrown = <<[failedAfter |-> res.requests, cause |-> res.lastError.message]>>

C24_WitnessSuccess ==
    /\ pc = "returned"
    /\ arg.baseDelay = RETRY_CONFIG.baseDelay
    /\ res.requests = 3
    /\ res.waits = <<1000, 2000>>

\* C29: a failed attempt is retried only when its error is retryable as
\* isRetryableError defines it; a non-retryable error (status 401, 404) is
\* reported after the first attempt, with no further attempt and no delay.
C29_OnlyRetryableErrorsAreRetried ==
    [][(pc = "attempt" /\ pc' = "sleeping") => isRetryableError(res'.lastError)]_vars

\* What the wrappers do with an error: every failure but the last is retried.
C29_EveryFailureIsRetried ==
    [][(pc = "attempt" /\ ~RetryDone') => pc' = "sleeping"]_vars

-----------------------------------------------------------------------------
(* Selection, filters and the information panel *)

\* Most signals in the list shown while the user clicks.
MaxUiSignals == 2

\* The id of a signal: <<>> when the record has no ID, <<n>> for the number n.
NoId == <<>>
UiIds == {NoId, <<0>>, <<1>>, <<2>>, <<7>>}

FalsyId(id) == id \in {NoId, <<0>>}

NoCategory == <<"#null">>
NoScanHit == <<>>

UiCategories == {STR_Social, STR_Economic}
UiDomains == {"teaching-learning", "equity-access"}

UiLists ==
    UNION { { [k \in 1..n |-> ScanHit(ids[k], TITLE_A, <<"teaching-learning">>,
                                      STR_Social, JS_FALSE)] :
              ids \in [1..n -> UiIds] } : n \in 1..MaxUiSignals }

\* The state after the data has loaded; clicked is the (zero-based) index of
\* the label clicked last, kept to state properties.
UiInit ==
    /\ ChartIdle
    /\ pc = "ui"
    /\ arg \in UiLists
    /\ res = [selectedDomain |-> Null,
              focusedScanHit |-> Null,
              selectedScanHit |-> NoScanHit,
              selectedSteepCategory |-> NoCategory,
              showParticipantIdentifiedOnly |-> FALSE,
              showDefaultModal |-> FALSE,
              showModalPanel |-> FALSE,
              clicked |-> -1]

closeModal(ui) == [ui EXCEPT !.showModalPanel = FALSE, !.showDefaultModal = FALSE]

\* A click that is not stopped reaches the document, where handleClickOutside
\* calls closeModal when it is registered: it is while the panel was open
\* before the click, and whether a listener registered by the effect of this
\* very click still sees the click depends on when React runs the effect.
afterBubbling(before, after) ==
    IF before.showModalPanel THEN {closeModal(after)}
    ELSE IF after.showModalPanel THEN {after, closeModal(after)}
    ELSE {after}

handleDomainClick ==
    /\ pc = "ui"
    /\ \E domainId \in UiDomains :
         res' = [res EXCEPT
                    !.focusedScanHit = Null,
                    !.selectedScanHit = NoScanHit,
                    !.selectedDomain = IF @ = domainId THEN Null ELSE domainId,
                    !.showModalPanel = TRUE]
    /\ UNCHANGED <<pc, arg, chartVars>>

handleScanHitClick ==
    /\ pc = "ui"
    /\ \E index \in 0..(Len(arg) - 1) :
         res' = [res EXCEPT
                    !.selectedDomain = Null,
                    !.selectedScanHit = <<arg[index + 1]>>,
                    !.showModalPanel = TRUE,
                    !.clicked = index]
    /\ UNCHANGED <<pc, arg, chartVars>>

handleSteepCategoryClick ==
    /\ pc = "ui"
    /\ \E category \in UiCategories :
         res' \in afterBubbling(res,
                    [res EXCEPT
                        !.selectedDomain = Null,
                        !.selectedScanHit = NoScanHit,
                        !.focusedScanHit = Null,
                        !.showParticipantIdentifiedOnly = FALSE,
                        !.selectedSteepCategory = IF @ = category THEN NoCategory ELSE category,
                        !.showModalPanel = TRUE])
    /\ UNCHANGED <<pc, arg, chartVars>>

handleParticipantIdentifiedClick ==
    /\ pc = "ui"
    /\ res' \in afterBubbling(res,
                  [res EXCEPT
                      !.selectedDomain = Null,
                      !.selectedScanHit = NoScanHit,
                      !.focusedScanHit = Null,
                      !.selectedSteepCategory = NoCategory,
                      !.showParticipantIdentifiedOnly = ~@,
                      !.showModalPanel = TRUE])
    /\ UNCHANGED <<pc, arg, chartVars>>

\* The click on the map in the centre.
handleCentreClick ==
    /\ pc = "ui"
    /\ res' = [res EXCEPT
                  !.selectedScanHit = NoScanHit,
                  !.selectedDomain = Null,
                  !.showDefaultModal = TRUE,
                  !.showModalPanel = TRUE]
    /\ UNCHANGED <<pc, arg, chartVars>>

\* The close button of the panel, the Escape key, a click outside the panel.
handleClose ==
    /\ pc = "ui"
    /\ res.showModalPanel
    /\ res' = closeModal(res)
    /\ UNCHANGED <<pc, arg, chartVars>>

\* The Clear button, rendered while a filter is set.
clearSelection ==
    /\ pc = "ui"
    /\ \/ res.selectedDomain # Null
       \/ res.selectedSteepCategory # NoCategory
       \/ res.showParticipantIdentifiedOnly
    /\ res' = [res EXCEPT
                  !.selectedDomain = Null,
                  !.selectedScanHit = NoScanHit,
                  !.focusedScanHit = Null,
                  !.selectedSteepCategory = NoCategory,
                  !.showParticipantIdentifiedOnly = FALSE,
                  !.showModalPanel = FALSE]
    /\ UNCHANGED <<pc, arg, chartVars>>

UiNext ==
    \/ handleDomainClick
    \/ handleScanHitClick
    \/ handleSteepCategoryClick
    \/ handleParticipantIdentifiedClick
    \/ handleCentreClick
    \/ handleClose
    \/ clearSelection

UiSpec == UiInit /\ [][UiNext]_vars

\* scanHits.findIndex(hit => hit.id === id), zero-based, -1 when none.
findIndexOfId(hits, id) ==
    IF \E k \in 1..Len(hits) : hits[k].id = id
    THEN (CHOOSE k \in 1..Len(hits) :
              hits[k].id = id /\ \A j \in 1..(k - 1) : hits[j].id # id) - 1
    ELSE -1

\* (scanHit.id || index) === (selectedScanHit.id || scanHits.findIndex(...))
matchesSelection(hits, index, selected) ==
    (IF FalsyId(hits[index + 1].id) THEN <<index>> ELSE hits[index + 1].id)
        = (IF FalsyId(selected.id) THEN <<findIndexOfId(hits, selected.id)>> ELSE selected.id)

\* Opacity of the label of the signal at index, in tenths.
labelOpacity(ui, hits, index) ==
    IF ui.selectedScanHit # NoScanHit
    THEN (IF matchesSelection(hits, index, ui.selectedScanHit[1]) THEN 10 ELSE 2)
    ELSE IF ui.selectedSteepCategory # NoCategory
    THEN (IF hits[index + 1].steepCategory = ui.selectedSteepCategory THEN 10 ELSE 2)
    ELSE IF ui.showParticipantIdentifiedOnly
    THEN (IF ~Falsy(hits[index + 1].participantIdentified) THEN 10 ELSE 2)
    ELSE IF ui.selectedDomain # Null
    THEN (IF ui.selectedDomain \in Range(hits[index + 1].domains) THEN 10 ELSE 2)
    ELSE 10

\* Opacity of the wedge of the signal at index in the ring of domainId, in
\* tenths.
segmentOpacity(ui, hits, index, domainId) ==
    IF ui.selectedScanHit # NoScanHit
    THEN (IF matchesSelection(hits, index, ui.selectedScanHit[1]) THEN 10 ELSE 1)
    ELSE IF ui.selectedSteepCategory # NoCategory
    THEN (IF hits[index + 1].steepCategory = ui.selectedSteepCategory THEN 10 ELSE 1)
    ELSE IF ui.showParticipantIdentifiedOnly
    THEN (IF ~Falsy(hits[index + 1].participantIdentified) THEN 10 ELSE 1)
    ELSE IF ui.selectedDomain # Null
    THEN (IF domainId = ui.selectedDomain THEN 10 ELSE 2)
    ELSE 6

IsHighlighted(index) ==
    /\ labelOpacity(res, arg, index) = 10
    /\ \A k \in 1..Len(arg[index + 1].domains) :
           segmentOpacity(res, arg, index, arg[index + 1].domains[k]) = 10

IsDimmed(index) ==
    /\ labelOpacity(res, arg, index) < 10
    /\ \A k \in 1..Len(arg[index + 1].domains) :
           segmentOpacity(res, arg, index, arg[index + 1].domains[k]) < 10

\* C25: when a signal is selected by a click on its label, exactly that
\* signal is highlighted and every other signal is dimmed, whatever the ids
\* of the list (absent, falsy, repeated, equal to another signal's index).
C25_ExactlyTheClickedSignalIsHighlighted ==
    res.selectedScanHit # NoScanHit =>
        \A index \in 0..(Len(arg) - 1) :
            IF index = res.clicked THEN IsHighlighted(index) ELSE IsDimmed(index)

\* The case the comparison gets right: ids that are truthy and distinct and
\* no index of the list.
C25_HoldsForProperIds ==
    (/\ res.selectedScanHit # NoScanHit
     /\ \A k \in 1..Len(arg) : arg[k].id \notin {NoId} \cup { <<i>> : i \in 0..(Len(arg) - 1) }
     /\ \A j, k \in 1..Len(arg) : j # k => arg[j].id # arg[k].id)
        => \A index \in 0..(Len(arg) - 1) :
               IF index = res.clicked THEN IsHighlighted(index) ELSE IsDimmed(index)

FiltersSet(ui) ==
    { kind \in {"domain", "steep", "participant"} :
        \/ kind = "domain" /\ ui.selectedDomain # Null
        \/ kind = "steep" /\ ui.selectedSteepCategory # NoCategory
        \/ kind = "participant" /\ ui.showParticipantIdentifiedOnly }

\* C27: in every reachable UI state at most one of selectedDomain,
\* selectedSteepCategory and showParticipantIdentifiedOnly is set.
C27_AtMostOneFilter ==
    Cardinality(FiltersSet(res)) <= 1

\* What the handlers do keep apart: the STEEP filter and the participant
\* filter are never set together.
C27_SteepAndParticipantExclusive ==
    ~(res.selectedSteepCategory # NoCategory /\ res.showParticipantIdentifiedOnly)

panelVisible(ui) ==
    /\ ui.showModalPanel
    /\ \/ ui.selectedScanHit # NoScanHit
       \/ ui.selectedDomain # Null
       \/ ui.selectedSteepCategory # NoCategory
       \/ ui.showParticipantIdentifiedOnly
       \/ ui.showDefaultModal

\* The selection the header names.
panelHeader(ui) ==
    IF ui.selectedScanHit # NoScanHit THEN "signal"
    ELSE IF ui.selectedDomain # Null THEN "domain"
    ELSE IF ui.selectedSteepCategory # NoCategory THEN "steep"
    ELSE IF ui.showParticipantIdentifiedOnly THEN "participant"
    ELSE "about"

\* The selection whose content the body shows.
panelBody(ui) ==
    IF ui.selectedScanHit # NoScanHit THEN "signal"
    ELSE IF ui.selectedSteepCategory # NoCategory THEN "steep"
    ELSE IF ui.showParticipantIdentifiedOnly THEN "participant"
    ELSE IF ui.selectedDomain # Null THEN "domain"
    ELSE "about"

\* C28: whenever the information panel is visible its header and its body
\* describe the same selection.
C28_HeaderAndBodyAgree ==
    panelVisible(res) => panelHeader(res) = panelBody(res)

\* With at most one filter set the two agree.
C28_AgreeUnderOneFilter ==
    (panelVisible(res) /\ Cardinality(FiltersSet(res)) <= 1)
        => panelHeader(res) = panelBody(res)

-----------------------------------------------------------------------------
(* The export of the chart *)

\* Largest custom poster side, in inches.
MaxCustomInches == 3

originalSize == 5000

\* A viewBox '0 0 w h': the width and the (rational) height.
originalViewBox == [width |-> originalSize, height |-> Num(originalSize)]

SizeTypes == {"24x36", "36x48", "custom", "A4"}

NoDimensions == <<>>

\* calculatePosterDimensions: <<>> when it throws (unknown size type, a side
\* that is not positive), else the sides in inches.
calculatePosterDimensions(sizeType, customWidth, customHeight) ==
    LET sides == IF sizeType = "24x36" THEN <<24, 36>>
                 ELSE IF sizeType = "36x48" THEN <<36, 48>>
                 ELSE IF sizeType = "custom" THEN <<customWidth, customHeight>>
                 ELSE <<0, 0>>
    IN IF sizeType \notin {"24x36", "36x48", "custom"} THEN NoDimensions
       ELSE IF sides[1] <= 0 \/ sides[2] <= 0 THEN NoDimensions
       ELSE <<[widthInches |-> sides[1], heightInches |-> sides[2]]>>

calculateViewBox(dimensions) ==
    LET aspectRatio == Rat(dimensions.widthInches, dimensions.heightInches)
    IN IF ~RatLess(aspectRatio, Num(1)) THEN originalViewBox
       ELSE [width |-> originalSize, height |-> RatDiv(Num(originalSize), aspectRatio)]

ExportInit ==
    /\ ChartIdle
    /\ pc = "export"
    /\ arg \in [format : {"svg", "png"},
                sizeType : SizeTypes,
                customWidth : 0..MaxCustomInches,
                customHeight : 0..MaxCustomInches]
    /\ res = [viewBox |-> originalViewBox, downloaded |-> FALSE]

\* exportAsSVG, which is synchronous: serializeSVG and downloadSVG either
\* both succeed or one of them throws.
exportAsSVG ==
    /\ pc = "export"
    /\ arg.format = "svg"
    /\ LET dimensions == calculatePosterDimensions(arg.sizeType, arg.customWidth, arg.customHeight)
       IN IF dimensions = NoDimensions
          THEN /\ pc' = "threw"
               /\ res' = res
          ELSE \/ /\ pc' = "done"
                  /\ res' = [viewBox |-> originalViewBox, downloaded |-> TRUE]
               \/ /\ pc' = "threw"
                  /\ res' = [res EXCEPT !.viewBox = calculateViewBox(dimensions[1])]
    /\ UNCHANGED <<arg, chartVars>>

\* exportAsPNG up to its await of svgToPNG.
exportAsPNG ==
    /\ pc = "export"
    /\ arg.format = "png"
    /\ LET dimensions == calculatePosterDimensions(arg.sizeType, arg.customWidth, arg.customHeight)
       IN IF dimensions = NoDimensions
          THEN /\ pc' = "threw"
               /\ res' = res
          ELSE /\ pc' = "converting"
               /\ res' = [res EXCEPT !.viewBox = calculateViewBox(dimensions[1])]
    /\ UNCHANGED <<arg, chartVars>>

\* svgToPNG settles: it resolves with the blob, or rejects (the image fails
\* to load, drawImage throws, canvas.toBlob yields null).
svgToPNGSettles ==
    /\ pc = "converting"
    /\ \/ /\ pc' = "done"
          /\ res' = [viewBox |-> originalViewBox, downloaded |-> TRUE]
       \/ /\ pc' = "threw"
          /\ res' = res
    /\ UNCHANGED <<arg, chartVars>>

ExportNext == exportAsSVG \/ exportAsPNG \/ svgToPNGSettles

ExportSpec == ExportInit /\ [][ExportNext]_vars

\* C26: when an export call has finished, by returning or by throwing or
\* rejecting, the viewBox of the chart is '0 0 5000 5000' again.
C26_ViewBoxIsRestored ==
    pc \in {"done", "threw"} => res.viewBox = originalViewBox

\* The restore the code does have: after a successful export.
C26_ViewBoxIsRestoredOnSuccess ==
    pc = "done" => res.viewBox = originalViewBox

-----------------------------------------------------------------------------
(* The angular span of a wedge *)

\* endAngle - startAngle of the wedge handed to createArcPath.
wedgeSpan(wedge) == RatSub(wedge.endAngle, wedge.startAngle)

\* createArcPath: const largeArcFlag = endAngle - startAngle <= 180 ? "0" : "1"
largeArcFlag(wedge) == IF ~RatLess(Num(180), wedgeSpan(wedge)) THEN "0" ELSE "1"

\* The span is more than 0 and less than 360 degrees.
IsProperWedge(wedge) ==
    /\ RatLess(Num(0), wedgeSpan(wedge))
    /\ RatLess(wedgeSpan(wedge), Num(360))

\* C30: for every N >= 1 and every index the wedge passed to createArcPath
\* has a span greater than 0 and less than 360 degrees, so that its start
\* edge and its end edge are distinct - also for a single signal.
C30_WedgeIsNonDegenerate ==
    pc = "slots" => \A k \in 1..Len(res) : IsProperWedge(res[k])

\* From two signals on every wedge is proper, and flagged as a small arc.
C30_HoldsFromTwoSignals ==
    (pc = "slots" /\ arg >= 2) =>
        \A k \in 1..Len(res) : IsProperWedge(res[k]) /\ largeArcFlag(res[k]) = "0"

====
